---- MODULE Spec2Model ----
(***************************************************************************)
(* Copy-on-write trie of src/primer/trie.cpp (Trie::Get, Trie::Put,        *)
(* Trie::Remove).  Nodes live in a heap indexed by node identity, so that  *)
(* sharing of nodes between trie versions, and a write to a shared node,   *)
(* are visible in the model.  Every Trie handle ever returned is kept in   *)
(* tries, so that earlier versions can be observed after later calls.      *)
(***************************************************************************)
EXTENDS Naturals, Sequences, FiniteSets, TLC

\* ---------------------------------------------------------------- bounds
MaxKeyLen == 2
MaxOps == 3
MaxVal == 2
MaxBuild == 1
MaxForkVal == 1
MaxDeepKeyLen == 3

Chars == {"a", "b"}
\* two of the value types instantiated at trie.cpp:160-177
Types == {"uint32_t", "string"}
Keys == UNION {[1..n -> Chars] : n \in 0..MaxKeyLen}
Values == [type : Types, v : 1..MaxVal]
\* longer keys, for the runs that look at the unwinding of Remove
DeepKeys == UNION {[1..n -> Chars] : n \in 0..MaxDeepKeyLen}
\* the values put by the calls of the concurrent runs
ForkValues == [type : {"uint32_t"}, v : 1..MaxForkVal]

\* ------------------------------------------------------------ node model
\* nullptr
Null == 0
\* a plain TrieNode carries no value
NoVal == [type |-> "none", v |-> 0]
\* an empty children_ map
NoChildren == [c \in Chars |-> Null]
\* std::make_shared<TrieNode>()
EmptyNode == [children |-> NoChildren, val |-> NoVal]
\* What a read through a null pointer can do: the process is killed, or the
\* read yields an empty object.
UBOutcomes == {"segv", "empty"}

HasChild(h, n, c) == h[n].children[c] # Null
GetChildNode(h, n, c) == h[n].children[c]
InsertChildNode(h, n, c, m) == [h EXCEPT ![n].children[c] = m]
RemoveChildNode(h, n, c) == [h EXCEPT ![n].children[c] = Null]
HasChildren(h, n) == \E c \in Chars : h[n].children[c] # Null
IsValueNode(h, n) == h[n].val.type # "none"
\* Clone(): same variant, same value, a copy of the child map
Clone(h, n) == [children |-> h[n].children, val |-> h[n].val]

\* ------------------------------------------------------------------- Get
Absent == [found |-> FALSE, v |-> 0]

RECURSIVE GetWalk(_, _, _, _)
\* trie.cpp:13-17, index counted from 1
GetWalk(h, cur_node, key, index) ==
  IF cur_node # Null /\ index <= Len(key)
  THEN GetWalk(h, GetChildNode(h, cur_node, key[index]), key, index + 1)
  ELSE cur_node

\* Get without the dynamic cast: any node found counts as a value of type T
Get_NoCast(h, root, T, key) ==
  LET cur_node == GetWalk(h, root, key, 1)
  IN IF cur_node # Null THEN [found |-> TRUE, v |-> h[cur_node].val.v] ELSE Absent

\* trie.cpp:9-24: the dynamic cast succeeds only on a value node of type T
Get(h, root, T, key) ==
  LET cur_node == GetWalk(h, root, key, 1)
  IN IF cur_node # Null /\ h[cur_node].val.type = T
     THEN [found |-> TRUE, v |-> h[cur_node].val.v]
     ELSE Absent

\* ---------------------------------------------------------- call frames
\* The locals of one Put or Remove call.  src is the receiver's root_.
NewFrame(op, key, val, src) ==
  [op |-> op, key |-> key, val |-> val, src |-> src, pc |-> "root", i |-> 1,
   root |-> Null, cur |-> Null, child |-> Null, newn |-> Null,
   stack |-> <<>>, top |-> <<>>, ret |-> Null]

Goto(h, f, pc) == [h |-> h, f |-> [f EXCEPT !.pc = pc]]
Crash(h, f) == Goto(h, f, "crashed")

\* ------------------------------------------------------------------- Put
\* PutNewRoot without the copy of the receiver's root (Clone / children_ dropped)
PutNewRoot_NoCopy(h, root, key, val) ==
  IF key # <<>> THEN EmptyNode ELSE [children |-> NoChildren, val |-> val]

\* trie.cpp:37-53
PutNewRoot(h, root, key, val) ==
  IF key # <<>>
  THEN IF root # Null THEN Clone(h, root) ELSE EmptyNode
  ELSE IF root # Null THEN [children |-> h[root].children, val |-> val]
       ELSE [children |-> NoChildren, val |-> val]

\* trie.cpp:63-70: the node attached where the key's character has no child
PutFreshNode(key, i, val) ==
  IF i # Len(key) THEN EmptyNode ELSE [children |-> NoChildren, val |-> val]

\* PutOverwriteNode that leaves the old node's children behind
PutOverwriteNode_DropsChildren(h, child, val) == [children |-> NoChildren, val |-> val]

\* PutOverwriteNode that keeps the node's old variant and value
PutOverwriteNode_KeepsOld(h, child, val) ==
  [children |-> h[child].children, val |-> h[child].val]

\* trie.cpp:76: the value node that takes the place of the key's node
PutOverwriteNode(h, child, val) == [children |-> h[child].children, val |-> val]

\* PutRootStep that walks from the receiver's own root instead of a copy of it
PutRootStep_InPlace(h, f) ==
  IF f.src # Null /\ f.key # <<>>
  THEN [h |-> h, f |-> [f EXCEPT !.root = f.src, !.cur = f.src, !.pc = "test"]]
  ELSE [h |-> Append(h, PutNewRoot(h, f.src, f.key, f.val)),
        f |-> [f EXCEPT !.root = Len(h) + 1, !.cur = Len(h) + 1, !.pc = "test"]]

\* trie.cpp:34-58: new_root is allocated and the walk starts from it
PutRootStep(h, f) ==
  [h |-> Append(h, PutNewRoot(h, f.src, f.key, f.val)),
   f |-> [f EXCEPT !.root = Len(h) + 1, !.cur = Len(h) + 1, !.pc = "test"]]

\* One step of Trie::Put, each touching at most one node that may be shared.
PutStep(h, f, ub) ==
  LET c == f.key[f.i]
      fresh == Len(h) + 1
  IN CASE f.pc = "root" -> PutRootStep(h, f)
       [] f.pc = "test" ->
            IF f.i > Len(f.key) THEN [h |-> h, f |-> [f EXCEPT !.ret = f.root, !.pc = "done"]]
            ELSE IF f.cur = Null
                 THEN IF ub = "segv" THEN Crash(h, f) ELSE Goto(h, f, "insert")
            ELSE IF ~HasChild(h, f.cur, c) THEN Goto(h, f, "insert")
            ELSE Goto(h, f, "fetch")
       [] f.pc = "insert" ->
            IF f.cur = Null THEN Crash(h, f)
            ELSE [h |-> InsertChildNode(Append(h, PutFreshNode(f.key, f.i, f.val)),
                                        f.cur, c, fresh),
                  f |-> [f EXCEPT !.pc = "next"]]
       [] f.pc = "fetch" ->
            [h |-> h,
             f |-> [f EXCEPT !.child = GetChildNode(h, f.cur, c),
                             !.pc = IF f.i = Len(f.key) THEN "copy" ELSE "next"]]
       [] f.pc = "copy" ->
            IF f.child = Null
            THEN IF ub = "segv" THEN Crash(h, f)
                 ELSE [h |-> Append(h, [children |-> NoChildren, val |-> f.val]),
                       f |-> [f EXCEPT !.newn = fresh, !.pc = "splice"]]
            ELSE [h |-> Append(h, PutOverwriteNode(h, f.child, f.val)),
                  f |-> [f EXCEPT !.newn = fresh, !.pc = "splice"]]
       [] f.pc = "splice" ->
            [h |-> InsertChildNode(h, f.cur, c, f.newn), f |-> [f EXCEPT !.pc = "next"]]
       [] f.pc = "next" ->
            [h |-> h,
             f |-> [f EXCEPT !.cur = GetChildNode(h, f.cur, c), !.i = f.i + 1,
                             !.pc = "test"]]

\* ---------------------------------------------------------------- Remove
\* RemoveNewRoot that clones the root also for the empty key, value included
RemoveNewRoot_KeepsValue(h, root, key) ==
  IF root # Null THEN Clone(h, root) ELSE EmptyNode

\* trie.cpp:93-102, for a receiver whose root_ can be read
RemoveNewRoot(h, root, key) ==
  IF key # <<>>
  THEN IF root # Null THEN Clone(h, root) ELSE EmptyNode
  ELSE [children |-> h[root].children, val |-> NoVal]

\* trie.cpp:122: the plain node that takes the place of the key's node
RemoveDemotedNode(h, child) == [children |-> h[child].children, val |-> NoVal]

\* KeepChild that forgets HasChildren()
KeepChild_IgnoresChildren(h, child) == child # Null /\ IsValueNode(h, child)

\* KeepChild that forgets IsValueNode()
KeepChild_IgnoresValue(h, child) == child # Null /\ HasChildren(h, child)

\* trie.cpp:137: the child stays attached
KeepChild(h, child) ==
  child # Null /\ (HasChildren(h, child) \/ IsValueNode(h, child))

\* PrunedRoot without the test of trie.cpp:144
PrunedRoot_Never(h, root) == root

\* trie.cpp:144-146: the root_ of the returned trie
PrunedRoot(h, root) ==
  IF ~IsValueNode(h, root) /\ ~HasChildren(h, root) THEN Null ELSE root

\* One step of Trie::Remove, each touching at most one node that may be shared.
RemoveStep(h, f, ub) ==
  LET c == f.key[f.i]
      fresh == Len(h) + 1
  IN CASE f.pc = "root" ->
            IF f.key = <<>> /\ f.src = Null
            THEN \* trie.cpp:101 reads root_->children_ of a null root_
                 IF ub = "segv" THEN Crash(h, f)
                 ELSE [h |-> Append(h, EmptyNode),
                       f |-> [f EXCEPT !.root = fresh, !.cur = fresh, !.pc = "test"]]
            ELSE [h |-> Append(h, RemoveNewRoot(h, f.src, f.key)),
                  f |-> [f EXCEPT !.root = fresh, !.cur = fresh, !.pc = "test"]]
       [] f.pc = "test" ->
            IF f.i > Len(f.key) THEN Goto(h, f, "pop")
            ELSE IF f.cur = Null
                 THEN IF ub = "segv" THEN Crash(h, f)
                      ELSE [h |-> h, f |-> [f EXCEPT !.ret = f.root, !.pc = "done"]]
            ELSE IF ~HasChild(h, f.cur, c)
                 THEN \* trie.cpp:113
                      [h |-> h, f |-> [f EXCEPT !.ret = f.root, !.pc = "done"]]
            ELSE [h |-> h,
                  f |-> [f EXCEPT !.stack = Append(f.stack, <<c, f.cur>>),
                                  !.pc = IF f.i = Len(f.key) THEN "fetch" ELSE "next"]]
       [] f.pc = "fetch" ->
            [h |-> h, f |-> [f EXCEPT !.child = GetChildNode(h, f.cur, c), !.pc = "copy"]]
       [] f.pc = "copy" ->
            IF f.child = Null
            THEN IF ub = "segv" THEN Crash(h, f)
                 ELSE [h |-> Append(h, EmptyNode),
                       f |-> [f EXCEPT !.newn = fresh, !.pc = "splice"]]
            ELSE [h |-> Append(h, RemoveDemotedNode(h, f.child)),
                  f |-> [f EXCEPT !.newn = fresh, !.pc = "splice"]]
       [] f.pc = "splice" ->
            [h |-> InsertChildNode(h, f.cur, c, f.newn), f |-> [f EXCEPT !.pc = "next"]]
       [] f.pc = "next" ->
            [h |-> h,
             f |-> [f EXCEPT !.cur = GetChildNode(h, f.cur, c), !.i = f.i + 1,
                             !.pc = "test"]]
       [] f.pc = "pop" ->
            IF f.stack = <<>> THEN Goto(h, f, "prune")
            ELSE LET pair == f.stack[Len(f.stack)]
                 IN [h |-> h,
                     f |-> [f EXCEPT !.stack = SubSeq(f.stack, 1, Len(f.stack) - 1),
                                     !.top = pair,
                                     !.child = GetChildNode(h, pair[2], pair[1]),
                                     !.pc = "check"]]
       [] f.pc = "check" ->
            IF KeepChild(h, f.child) THEN Goto(h, f, "pop") ELSE Goto(h, f, "detach")
       [] f.pc = "detach" ->
            [h |-> RemoveChildNode(h, f.top[2], f.top[1]), f |-> [f EXCEPT !.pc = "pop"]]
       [] f.pc = "prune" ->
            [h |-> h, f |-> [f EXCEPT !.ret = PrunedRoot(h, f.root), !.pc = "done"]]

\* ------------------------------------------------------------ whole calls
Step(h, f, ub) == IF f.op = "Put" THEN PutStep(h, f, ub) ELSE RemoveStep(h, f, ub)

Finished(f) == f.pc \in {"done", "crashed", "returned"}

RECURSIVE Run(_, _, _)
\* a call run from its current position to its return, with no other call running
Run(h, f, ub) ==
  IF Finished(f) THEN [h |-> h, f |-> f]
  ELSE LET s == Step(h, f, ub) IN Run(s.h, s.f, ub)

\* ----------------------------------------------------------------- state
VARIABLES
  heap,     \* the nodes allocated so far, by identity
  tries,    \* root_ of every Trie returned so far; tries[1] is the empty Trie()
  fault,    \* the process was killed by a read through a null pointer
  calls,    \* the frames of the calls in progress (concurrent runs only)
  last,     \* history: the last call made (op, key, val, receiver, result)
  made,     \* history: made[i] is the call that returned tries[i]
  preHeap   \* history: heap as it was when the last call (or fork) started

vars == <<heap, tries, fault, calls, last, made, preHeap>>

NoCall == [op |-> "none", key |-> <<>>, val |-> NoVal, src |-> 0, res |-> 0]

Init ==
  /\ heap = <<>>
  /\ tries = <<Null>>
  /\ fault = FALSE
  /\ calls = <<>>
  /\ last = NoCall
  /\ made = <<NoCall>>
  /\ preHeap = <<>>

\* t.Put(key, val) or t.Remove(key) on the t-th trie, as one call.
Call(op, t, key, val, ub) ==
  LET r == Run(heap, NewFrame(op, key, val, tries[t]), ub)
  IN /\ heap' = r.h
     /\ preHeap' = heap
     /\ calls' = calls
     /\ IF r.f.pc = "crashed"
        THEN /\ fault' = TRUE
             /\ tries' = tries
             /\ made' = made
             /\ last' = [op |-> op, key |-> key, val |-> val, src |-> t, res |-> 0]
        ELSE /\ fault' = fault
             /\ tries' = Append(tries, r.f.ret)
             /\ last' = [op |-> op, key |-> key, val |-> val, src |-> t,
                         res |-> Len(tries) + 1]
             /\ made' = Append(made, last')

DoPut(limit, keys, vals) ==
  /\ ~fault /\ calls = <<>> /\ Len(tries) <= limit
  /\ \E t \in 1..Len(tries), key \in keys, val \in vals :
        Call("Put", t, key, val, "segv")

DoRemove(limit, keys) ==
  /\ ~fault /\ calls = <<>> /\ Len(tries) <= limit
  /\ \E t \in 1..Len(tries), key \in keys, ub \in UBOutcomes :
        Call("Remove", t, key, NoVal, ub)

Put == DoPut(MaxOps, Keys, Values)
Remove == DoRemove(MaxOps, Keys)

Next == Put \/ Remove

Spec == Init /\ [][Next]_vars

\* The same calls with keys up to MaxDeepKeyLen and the values of ForkValues.
DeepPut == DoPut(MaxOps, DeepKeys, ForkValues)
DeepRemove == DoRemove(MaxOps, DeepKeys)

NextDeep == DeepPut \/ DeepRemove

SpecDeep == Init /\ [][NextDeep]_vars

\* ------------------------------------------------------ concurrent calls
\* Two calls on the same receiver, interleaved step by step.  The receiver is
\* first built by whole calls.
BuildPut == DoPut(MaxBuild, Keys, ForkValues)
BuildRemove == DoRemove(MaxBuild, Keys)

ForkCalls ==
  {[op |-> "Put", key |-> k, val |-> v] : k \in Keys, v \in ForkValues}
    \cup {[op |-> "Remove", key |-> k, val |-> NoVal] : k \in Keys}

Fork ==
  /\ ~fault /\ calls = <<>>
  /\ \E t \in 1..Len(tries), c1 \in ForkCalls, c2 \in ForkCalls :
       /\ calls' = <<NewFrame(c1.op, c1.key, c1.val, tries[t]),
                     NewFrame(c2.op, c2.key, c2.val, tries[t])>>
       /\ last' = [op |-> "Fork", key |-> <<>>, val |-> NoVal, src |-> t, res |-> 0]
  /\ preHeap' = heap
  /\ UNCHANGED <<heap, tries, fault, made>>

StepCall ==
  /\ ~fault
  /\ \E p \in 1..Len(calls), ub \in UBOutcomes :
       /\ ~Finished(calls[p])
       /\ LET s == Step(heap, calls[p], ub)
          IN /\ heap' = s.h
             /\ calls' = [calls EXCEPT ![p] = s.f]
             /\ fault' = (s.f.pc = "crashed")
  /\ UNCHANGED <<tries, last, made, preHeap>>

\* return *new_trie (trie.cpp:85, 113, 148)
Return ==
  /\ ~fault
  /\ \E p \in 1..Len(calls) :
       /\ calls[p].pc = "done"
       /\ tries' = Append(tries, calls[p].ret)
       /\ made' = Append(made, [op |-> calls[p].op, key |-> calls[p].key,
                                val |-> calls[p].val, src |-> last.src,
                                res |-> Len(tries) + 1])
       /\ calls' = [calls EXCEPT ![p].pc = "returned"]
  /\ UNCHANGED <<heap, fault, last, preHeap>>

NextConc == BuildPut \/ BuildRemove \/ Fork \/ StepCall \/ Return

SpecConc == Init /\ [][NextConc]_vars

\* ---------------------------------------------------------- observations
\* the two tries answer every Get<T>(k), k in ks, alike
SameGets(h1, r1, h2, r2, ks) ==
  \A k \in ks, T \in Types : Get(h1, r1, T, k) = Get(h2, r2, T, k)

\* the key carries a value of some type
Present(h, root, key) == \E T \in Types : Get(h, root, T, key).found

RECURSIVE ReachFrom(_, _)
\* the nodes reachable from node n
ReachFrom(h, n) ==
  IF n = Null THEN {}
  ELSE {n} \cup UNION {ReachFrom(h, h[n].children[c]) : c \in Chars}

StrictPrefix(p, q) == Len(p) < Len(q) /\ SubSeq(q, 1, Len(p)) = p

\* the versions returned before the last call started
Earlier == IF last.res = 0 THEN 1..Len(tries) ELSE 1..(last.res - 1)
\* receiver and result of the last call
SrcRoot == tries[last.src]
ResRoot == tries[last.res]
Returned(op) == last.op = op /\ last.res # 0

\* ------------------------------------------------------------ properties

\* C1: Put leaves every version returned before the call (the receiver
\* included) with the same Get result for every key and type.
C1_PutKeepsEarlierVersions ==
  Returned("Put") =>
    \A t \in Earlier : SameGets(heap, tries[t], preHeap, tries[t], Keys)

\* C2: Remove leaves every version returned before the call (the receiver
\* included) with the same Get result for every key and type.
C2_RemoveKeepsEarlierVersions ==
  last.op = "Remove" =>
    \A t \in Earlier : SameGets(heap, tries[t], preHeap, tries[t], Keys)

\* C3: no Put or Remove writes to a node reachable from a version returned
\* before the call: every such node is after the call as it was before it.
C3_NoWriteToPublishedNode ==
  last.op \in {"Put", "Remove"} =>
    \A t \in Earlier : \A n \in ReachFrom(preHeap, tries[t]) : heap[n] = preHeap[n]

\* C4: t.Put(k, v).Get<T>(k), T the type of v, is present and equals v.
C4_PutThenGet ==
  Returned("Put") =>
    Get(heap, ResRoot, last.val.type, last.key) = [found |-> TRUE, v |-> last.val.v]

C4_Witness ==
  /\ Returned("Put") /\ Len(last.key) = MaxKeyLen
  /\ Present(preHeap, SrcRoot, last.key)
  /\ Get(preHeap, SrcRoot, last.val.type, last.key) # [found |-> TRUE, v |-> last.val.v]
  /\ Get(heap, ResRoot, last.val.type, last.key) = [found |-> TRUE, v |-> last.val.v]

\* C5: in the result of t1.Put(k, v) every key other than k has the Get
\* result it had in t1 before the call.
C5_PutFrame ==
  Returned("Put") =>
    SameGets(heap, ResRoot, preHeap, SrcRoot, Keys \ {last.key})

C5_Witness ==
  /\ Returned("Put")
  /\ \E k1, k2 \in Keys :
       /\ StrictPrefix(k1, last.key) /\ StrictPrefix(last.key, k2)
       /\ Present(preHeap, SrcRoot, k1) /\ Present(preHeap, SrcRoot, k2)
       /\ Present(heap, ResRoot, k1) /\ Present(heap, ResRoot, k2)

\* C6: Remove of a present key k returns a trie where Get(k) is absent and
\* every other key has the Get result it had in the receiver before the call.
C6_RemovePresent ==
  (last.op = "Remove" /\ Present(preHeap, SrcRoot, last.key)) =>
    /\ last.res # 0
    /\ ~Present(heap, ResRoot, last.key)
    /\ SameGets(heap, ResRoot, preHeap, SrcRoot, Keys \ {last.key})

C6_Witness ==
  /\ Returned("Remove") /\ Present(preHeap, SrcRoot, last.key)
  /\ Len(last.key) = MaxKeyLen
  /\ \E k1 \in Keys : StrictPrefix(k1, last.key) /\ Present(preHeap, SrcRoot, k1)
                      /\ Present(heap, ResRoot, k1)
  /\ ~Present(heap, ResRoot, last.key)

\* C7: Remove of an absent key returns, without error, a trie where every
\* key has the Get result it had in the receiver before the call.
C7_RemoveAbsent ==
  (last.op = "Remove" /\ ~Present(preHeap, SrcRoot, last.key)) =>
    /\ last.res # 0
    /\ SameGets(heap, ResRoot, preHeap, SrcRoot, Keys)

\* C8: Remove of any key on a trie with an absent root completes without
\* error and returns a trie with an absent root.
C8_RemoveOnEmpty ==
  (last.op = "Remove" /\ SrcRoot = Null) => (last.res # 0 /\ ResRoot = Null)

\* C9: every node reachable from the root of a returned version has a value
\* or at least one child.
C9_NoDeadNode ==
  \A t \in 1..Len(tries) :
    \A n \in ReachFrom(heap, tries[t]) : IsValueNode(heap, n) \/ HasChildren(heap, n)

\* The call of frame f run alone on the heap of the fork.
Alone(f) == Run(preHeap, NewFrame(f.op, f.key, f.val, f.src), "segv")

\* C10: two interleaved calls on the same receiver each return a trie that
\* answers every Get as the trie the call returns when run alone, and the
\* receiver answers every Get as before the calls.
C10_ConcurrentCallsIndependent ==
  (calls # <<>> /\ \A p \in 1..Len(calls) : Alone(calls[p]).f.pc = "done") =>
    /\ ~fault
    /\ (\A p \in 1..Len(calls) : calls[p].pc = "returned") =>
         /\ \A p \in 1..Len(calls) :
              SameGets(heap, calls[p].ret, Alone(calls[p]).h, Alone(calls[p]).f.ret, Keys)
         /\ SameGets(heap, SrcRoot, preHeap, SrcRoot, Keys)

\* The call before the last one, when the last call was made on its result
\* right after it.
Prev == made[last.src]
Chained(op1, op2) ==
  /\ Returned(op2) /\ last.src = last.res - 1
  /\ Prev.op = op1 /\ Prev.key = last.key

\* the last three calls are t.Put(k2, w).Put(k, v1).Put(k, v2), k2 extending k
OverwriteChain ==
  /\ Chained("Put", "Put") /\ Prev.src = last.src - 1
  /\ made[Prev.src].op = "Put" /\ StrictPrefix(last.key, made[Prev.src].key)

\* C11: after t.Put(k2, w).Put(k, v1).Put(k, v2), k2 strictly extending k,
\* Get(k) returns v2 and Get(k2) still returns w.
C11_OverwriteKeepsSubtree ==
  OverwriteChain =>
    LET first == made[Prev.src]
    IN /\ Get(heap, ResRoot, last.val.type, last.key) = [found |-> TRUE, v |-> last.val.v]
       /\ Get(heap, ResRoot, first.val.type, first.key)
            = [found |-> TRUE, v |-> first.val.v]

C11_Witness ==
  /\ OverwriteChain /\ Prev.val # last.val /\ last.key # <<>>
  /\ Get(heap, ResRoot, last.val.type, last.key) = [found |-> TRUE, v |-> last.val.v]
  /\ Present(heap, ResRoot, made[Prev.src].key)

\* no node of k's path below the root exists in the trie
NoPathBelowRoot(h, root, key) ==
  key = <<>> \/ root = Null \/ ~HasChild(h, root, key[1])

\* C12: Put(k, v) on an empty trie followed by Remove(k) yields a trie whose
\* root is absent; for a trie t without any node of k's path below the root,
\* t.Put(k, v).Remove(k) answers every Get as t does.
C12_PruningRoundTrip ==
  Chained("Put", "Remove") =>
    LET t == tries[Prev.src]
    IN /\ t = Null => ResRoot = Null
       /\ NoPathBelowRoot(heap, t, last.key) => SameGets(heap, ResRoot, heap, t, Keys)

\* C12 amended: the same, for a key k that is absent in t.
C12_PruningRoundTripAbsentKey ==
  Chained("Put", "Remove") =>
    LET t == tries[Prev.src]
    IN /\ t = Null => ResRoot = Null
       /\ (NoPathBelowRoot(heap, t, last.key) /\ ~Present(heap, t, last.key))
            => SameGets(heap, ResRoot, heap, t, Keys)

C12_Witness ==
  /\ Chained("Put", "Remove") /\ Len(last.key) = MaxKeyLen
  /\ tries[Prev.src] # Null /\ Present(heap, tries[Prev.src], <<>>)
  /\ NoPathBelowRoot(heap, tries[Prev.src], last.key)
  /\ ResRoot # Null /\ ~Present(heap, ResRoot, last.key)

\* the node at the key's position, Null when there is none
NodeAt(h, root, key) == GetWalk(h, root, key, 1)

\* C13: when p and q are present and p is a strict prefix of q, t.Remove(p)
\* returns a trie where Get(p) is absent and Get(q) is as before; the node of
\* p, which still has children, stays attached.
C13_PrefixNonInterference ==
  (last.op = "Remove" /\ Present(preHeap, SrcRoot, last.key)) =>
    \A q \in Keys :
      (StrictPrefix(last.key, q) /\ Present(preHeap, SrcRoot, q)) =>
        /\ last.res # 0
        /\ ~Present(heap, ResRoot, last.key)
        /\ \A T \in Types : Get(heap, ResRoot, T, q) = Get(preHeap, SrcRoot, T, q)
        /\ NodeAt(heap, ResRoot, last.key) # Null

C13_Witness ==
  /\ Returned("Remove") /\ last.key # <<>> /\ Present(preHeap, SrcRoot, last.key)
  /\ \E q \in Keys : /\ StrictPrefix(last.key, q)
                     /\ Present(preHeap, SrcRoot, q) /\ Present(heap, ResRoot, q)
  /\ ~Present(heap, ResRoot, last.key)

\* p is a prefix of q, or q itself
OnPath(p, q) == p = q \/ StrictPrefix(p, q)

\* C14: after t2 = t1.Put(k, v), every node of t1 off the path of k is in t2
\* at the same key position, as the same node.
C14_StructuralSharing ==
  Returned("Put") =>
    \A pos \in Keys :
      (~OnPath(pos, last.key) /\ NodeAt(preHeap, SrcRoot, pos) # Null) =>
        NodeAt(heap, ResRoot, pos) = NodeAt(preHeap, SrcRoot, pos)

C14_Witness ==
  /\ Returned("Put") /\ last.key # <<>>
  /\ \E p1, p2 \in Keys :
       /\ StrictPrefix(last.key, p1) /\ ~OnPath(p2, last.key) /\ ~OnPath(last.key, p2)
       /\ NodeAt(preHeap, SrcRoot, p1) # Null /\ NodeAt(preHeap, SrcRoot, p2) # Null
       /\ NodeAt(heap, ResRoot, p1) = NodeAt(preHeap, SrcRoot, p1)
       /\ NodeAt(heap, ResRoot, p2) = NodeAt(preHeap, SrcRoot, p2)

RECURSIVE Descend(_, _, _)
\* the node reached from root along key, one child link per character
Descend(h, root, key) ==
  IF key = <<>> THEN root
  ELSE LET parent == Descend(h, root, SubSeq(key, 1, Len(key) - 1))
       IN IF parent = Null THEN Null ELSE h[parent].children[key[Len(key)]]

\* some character of the key has no child along the walk from a present root
MissingChild(h, root, key) ==
  \E j \in 1..Len(key) :
    LET parent == Descend(h, root, SubSeq(key, 1, j - 1))
    IN parent # Null /\ h[parent].children[key[j]] = Null

\* the walk ends on a node that carries no value
EndsOnPlainNode(h, root, key) ==
  Descend(h, root, key) # Null /\ h[Descend(h, root, key)].val = NoVal

\* C15: Get returns absent on a trie without root, when a character of the
\* key has no child along the walk, and when the walk ends on a plain node.
C15_GetAbsent ==
  \A t \in 1..Len(tries), k \in Keys, T \in Types :
    (tries[t] = Null \/ MissingChild(heap, tries[t], k)
       \/ EndsOnPlainNode(heap, tries[t], k))
      => Get(heap, tries[t], T, k) = Absent

C15_Witness ==
  \E t \in 1..Len(tries), k1, k2 \in Keys :
    /\ tries[t] # Null
    /\ MissingChild(heap, tries[t], k1) /\ Len(k1) = MaxKeyLen
    /\ EndsOnPlainNode(heap, tries[t], k2)
    /\ \A T \in Types : Get(heap, tries[t], T, k1) = Absent /\ Get(heap, tries[t], T, k2) = Absent
    /\ Get(heap, tries[1], "uint32_t", k1) = Absent

RECURSIVE LastWrite(_, _)
\* what the calls that led to version i last wrote at key k: the value of the
\* most recent Put(k, .), NoVal after a Remove(k) or when k was never put
LastWrite(i, k) ==
  IF i = 1 THEN NoVal
  ELSE IF made[i].key = k THEN made[i].val
  ELSE LastWrite(made[i].src, k)

\* C16: Get<T>(k) is present exactly when the most recent Put to k, not
\* followed by a Remove of k, stored a value of type T.
C16_LastWriteWins ==
  \A i \in 1..Len(tries), k \in Keys, T \in Types :
    Get(heap, tries[i], T, k).found <=> LastWrite(i, k).type = T

\* C17: Put("", v) returns a trie whose root carries v and has the children
\* the receiver's root had; Remove("") on a trie with a root removes the
\* root's value only, and returns an absent root when it had no children.
C17_EmptyKeyActsOnRoot ==
  /\ (Returned("Put") /\ last.key = <<>>) =>
       /\ ResRoot # Null
       /\ heap[ResRoot].val = last.val
       /\ heap[ResRoot].children
            = (IF SrcRoot = Null THEN NoChildren ELSE preHeap[SrcRoot].children)
       /\ Get(heap, ResRoot, last.val.type, <<>>) = [found |-> TRUE, v |-> last.val.v]
       /\ SameGets(heap, ResRoot, preHeap, SrcRoot, Keys \ {<<>>})
  /\ (last.op = "Remove" /\ last.key = <<>> /\ SrcRoot # Null) =>
       /\ last.res # 0
       /\ ~Present(heap, ResRoot, <<>>)
       /\ SameGets(heap, ResRoot, preHeap, SrcRoot, Keys \ {<<>>})
       /\ ~HasChildren(preHeap, SrcRoot) => ResRoot = Null

C17_Witness ==
  /\ Returned("Remove") /\ last.key = <<>> /\ SrcRoot # Null
  /\ Present(preHeap, SrcRoot, <<>>) /\ HasChildren(preHeap, SrcRoot)
  /\ Prev.op = "Put" /\ Prev.key = <<>>
  /\ ResRoot # Null /\ ~Present(heap, ResRoot, <<>>)

RECURSIVE UnwindTrace(_, _, _, _)
\* The unwinding (trie.cpp:131-141) of the call of frame f, deepest step
\* first: whether the step detached the child, and whether the child had
\* neither value nor children when the step looked at it.
UnwindTrace(h, f, ub, tr) ==
  IF Finished(f) THEN tr
  ELSE LET s == Step(h, f, ub)
           ev == [detached |-> s.f.pc = "detach",
                  dead |-> /\ f.child # Null
                           /\ ~IsValueNode(h, f.child) /\ ~HasChildren(h, f.child)]
       IN UnwindTrace(s.h, s.f, ub, IF f.pc = "check" THEN Append(tr, ev) ELSE tr)

LastUnwind == UnwindTrace(preHeap, NewFrame("Remove", last.key, NoVal, SrcRoot), "empty", <<>>)

\* C18: Remove detaches a child only when it has no value and no children,
\* and after a step that keeps its child no shallower step detaches.
C18_UnwindStops ==
  last.op = "Remove" =>
    \A j \in 1..Len(LastUnwind) :
      /\ LastUnwind[j].detached => LastUnwind[j].dead
      /\ ~LastUnwind[j].detached =>
           \A m \in (j + 1)..Len(LastUnwind) : ~LastUnwind[m].detached

C18_Witness ==
  /\ Returned("Remove") /\ Len(LastUnwind) = MaxDeepKeyLen
  /\ LastUnwind[1].detached /\ LastUnwind[1].dead
  /\ ~LastUnwind[2].detached /\ ~LastUnwind[3].detached

\* C19: a Put or Remove with a key of length at most 1 on a trie with a root
\* changes no node that existed before the call, and leaves every earlier
\* version with the same Get results.
C19_ShortKeyWritesRootOnly ==
  (last.op \in {"Put", "Remove"} /\ Len(last.key) <= 1 /\ SrcRoot # Null) =>
    /\ \A n \in 1..Len(preHeap) : heap[n] = preHeap[n]
    /\ \A t \in Earlier : SameGets(heap, tries[t], preHeap, tries[t], Keys)

C19_Witness ==
  /\ last.op \in {"Put", "Remove"} /\ Len(last.key) = 1 /\ SrcRoot # Null
  /\ last.res # 0
  /\ HasChild(preHeap, SrcRoot, last.key[1])
  /\ ~SameGets(heap, ResRoot, preHeap, SrcRoot, Keys)
  /\ \A n \in 1..Len(preHeap) : heap[n] = preHeap[n]

====
